---- MODULE Spec2Model ----
(***************************************************************************)
(* A model of the real-time-clock core of src/src/RTC.cpp: the register    *)
(* file (State), the bit-serial interface behind the 16-bit control        *)
(* register (Write / Read), the command processor (ByteIn, CmdRead,        *)
(* CmdWrite, WriteDateTime) and the clock engine (ClockTimer, CountSecond  *)
(* and its carry chain, ScheduleTimer).                                    *)
(*                                                                         *)
(* Functions of the source are operators with the source's names; the      *)
(* module-level variables of the source are the VARIABLES.  Operators      *)
(* that change only the register file take the register file `s' and       *)
(* return the new one.  Arrays keep the source's 0-based indices.          *)
(***************************************************************************)
EXTENDS Integers, Sequences, FiniteSets, TLC

VARIABLES
    IO,             \* u16 IO: the latched control register
    Input,          \* u8 Input: the byte being assembled
    InputBit,       \* u32 InputBit
    InputPos,       \* u32 InputPos
    Output,         \* u8 Output[8]
    OutputBit,      \* u32 OutputBit
    OutputPos,      \* u32 OutputPos
    CurCmd,         \* u8 CurCmd
    State,          \* StateData State: the register file
    TimerError,     \* s32 TimerError
    ClockCount,     \* u32 ClockCount
    ConsoleType,    \* NDS::ConsoleType (1: the variant with the extended commands)
    lastDelay,      \* the delay last handed to NDS::ScheduleEvent
    shiftedIn,      \* observer: the bits shifted in since the last byte boundary
    byteIn,         \* observer: what the last operation passed to ByteIn
    readShifts,     \* observer: read-direction shifts since the session started
    readBack,       \* observer: what the status register 1 reads returned since
                    \* the last write of it, the last two of them
    seconds,        \* observer: CountSecond calls since Init
    lastDayAt,      \* observer: seconds at the last tick that changed the day, -1: none
    span            \* observer: the delays handed to NDS::ScheduleEvent by the
                    \* last n <= 0x8000 calls of ScheduleTimer, their sum, and
                    \* the carried error the oldest of them started from

vars == <<IO, Input, InputBit, InputPos, Output, OutputBit, OutputPos, CurCmd,
          State, TimerError, ClockCount, ConsoleType, lastDelay,
          shiftedIn, byteIn, readShifts, readBack, seconds, lastDayAt, span>>

----------------------------------------------------------------------------
(* Fixed-width arithmetic of the source's u8 / u16 values.  The u32         *)
(* counters (InputPos, ClockCount, MinuteCount) are kept by the guards of   *)
(* the actions far below 2^32, so they never wrap here.                     *)

RECURSIVE BitAnd(_, _)
BitAnd(a, b) ==
    IF a = 0 \/ b = 0 THEN 0
    ELSE (a % 2) * (b % 2) + 2 * BitAnd(a \div 2, b \div 2)

RECURSIVE BitOr(_, _)
BitOr(a, b) ==
    IF a = 0 THEN b
    ELSE IF b = 0 THEN a
    ELSE (IF a % 2 = 1 \/ b % 2 = 1 THEN 1 ELSE 0) + 2 * BitOr(a \div 2, b \div 2)

RECURSIVE BitXor(_, _)
BitXor(a, b) ==
    IF a = 0 THEN b
    ELSE IF b = 0 THEN a
    ELSE ((a + b) % 2) + 2 * BitXor(a \div 2, b \div 2)

Shl(a, n) == a * (2 ^ n)

Shr(a, n) == a \div (2 ^ n)

U8(x) == x % 256

U16(x) == x % 65536

\* C's remainder: the sign of the dividend.
CRem(a, b) == IF a >= 0 THEN a % b ELSE - ((- a) % b)

----------------------------------------------------------------------------
(* BCD helpers.                                                             *)

\* u8 BCD(u8 val)
BCD(val) == U8(BitOr(val % 10, Shl(val \div 10, 4)))

\* u8 BCDIncrement(u8 val)
BCDIncrement(val) ==
    LET v1 == U8(val + 1)
        v2 == IF BitAnd(v1, \h0F) >= \h0A THEN U8(v1 + \h06) ELSE v1
        v3 == IF BitAnd(v2, \hF0) >= \hA0 THEN U8(v2 + \h60) ELSE v2
    IN  v3

\* the range check without the digit checks
BCDSanitizeRangeOnly(val, vmin, vmax) ==
    IF val < vmin \/ val > vmax THEN vmin ELSE val

\* u8 BCDSanitize(u8 val, u8 vmin, u8 vmax)
BCDSanitize(val, vmin, vmax) ==
    IF val < vmin \/ val > vmax THEN vmin
    ELSE IF BitAnd(val, \h0F) >= \h0A THEN vmin
    ELSE IF BitAnd(val, \hF0) >= \hA0 THEN vmin
    ELSE val

----------------------------------------------------------------------------
(* The register file.                                                       *)

Zero3 == [i \in 0..2 |-> 0]

\* ResetState() without the two assignments after the memset
ResetStateMemsetOnly ==
    [StatusReg1 |-> 0, StatusReg2 |-> 0,
     DateTime |-> [i \in 0..6 |-> 0],
     Alarm1 |-> Zero3, Alarm2 |-> Zero3,
     ClockAdjust |-> 0, FreeReg |-> 0,
     MinuteCount |-> 0, FOUT1 |-> 0, FOUT2 |-> 0,
     AlarmDate1 |-> Zero3, AlarmDate2 |-> Zero3]

\* void ResetState(): memset(&State, 0, sizeof(State)), month = 1, day = 1
ResetState ==
    [StatusReg1 |-> 0, StatusReg2 |-> 0,
     DateTime |-> [i \in 0..6 |-> IF i = 1 \/ i = 2 THEN 1 ELSE 0],
     Alarm1 |-> Zero3, Alarm2 |-> Zero3,
     ClockAdjust |-> 0, FreeReg |-> 0,
     MinuteCount |-> 0, FOUT1 |-> 0, FOUT2 |-> 0,
     AlarmDate1 |-> Zero3, AlarmDate2 |-> Zero3]

\* bool Init(): MinuteCount = 0, ResetState(), StatusReg1 = 0x80
InitState == [ResetState EXCEPT !.StatusReg1 = \h80]

SetDT(s, i, v) == [s EXCEPT !.DateTime[i] = v]

----------------------------------------------------------------------------
(* Calendar arithmetic.                                                     *)

\* February without the leap-year rule
DaysInMonthNoLeap(s) ==
    LET m == s.DateTime[1]
    IN  IF m \in {\h01, \h03, \h05, \h07, \h08, \h10, \h12} THEN \h31
        ELSE IF m \in {\h04, \h06, \h09, \h11} THEN \h30
        ELSE IF m = \h02 THEN \h28
        ELSE 0

\* u8 DaysInMonth(): the BCD day count of the stored month, 0 for no month
DaysInMonth(s) ==
    LET m == s.DateTime[1]
    IN  IF m \in {\h01, \h03, \h05, \h07, \h08, \h10, \h12} THEN \h31
        ELSE IF m \in {\h04, \h06, \h09, \h11} THEN \h30
        ELSE IF m = \h02 THEN
            LET y    == s.DateTime[0]
                year == BitAnd(y, \h0F) + (Shr(y, 4) * 10)
            IN  IF BitAnd(year, 3) = 0 THEN \h29 ELSE \h28
        ELSE 0

\* void CountYear()
CountYear(s) == SetDT(s, 0, BCDIncrement(s.DateTime[0]))

\* void CountMonth()
CountMonth(s) ==
    LET s1 == SetDT(s, 1, BCDIncrement(s.DateTime[1]))
    IN  IF s1.DateTime[1] > \h12 THEN CountYear(SetDT(s1, 1, 1)) ELSE s1

\* the end-of-month check left out
CheckEndOfMonthNever(s) == s

\* void CheckEndOfMonth()
CheckEndOfMonth(s) ==
    IF s.DateTime[2] > DaysInMonth(s) THEN CountMonth(SetDT(s, 2, 1)) ELSE s

\* void CountDay()
CountDay(s) ==
    LET d1 == U8(s.DateTime[3] + 1)
        s1 == SetDT(s, 3, IF d1 >= 7 THEN 0 ELSE d1)
        s2 == SetDT(s1, 2, BCDIncrement(s1.DateTime[2]))
    IN  CheckEndOfMonth(s2)

\* 12-hour mode counting the day on every wrap of the hour
CountHourDayEveryWrap(s) ==
    LET hour == BCDIncrement(BitAnd(s.DateTime[4], \h3F))
        pm   == BitAnd(s.DateTime[4], \h40)
    IN  IF BitAnd(s.StatusReg1, 2) # 0
        THEN LET wrap == hour >= \h24
                 h2   == IF wrap THEN 0 ELSE hour
                 s1   == IF wrap THEN CountDay(s) ELSE s
                 pm2  == IF h2 >= \h12 THEN \h40 ELSE 0
             IN  SetDT(s1, 4, BitOr(h2, pm2))
        ELSE LET wrap == hour >= \h12
                 h2   == IF wrap THEN 0 ELSE hour
                 s1   == IF wrap THEN CountDay(s) ELSE s
                 pm2  == IF wrap THEN BitXor(pm, \h40) ELSE pm
             IN  SetDT(s1, 4, BitOr(h2, pm2))

\* void CountHour()
CountHour(s) ==
    LET hour == BCDIncrement(BitAnd(s.DateTime[4], \h3F))
        pm   == BitAnd(s.DateTime[4], \h40)
    IN  IF BitAnd(s.StatusReg1, 2) # 0
        THEN \* 24-hour mode
             LET wrap == hour >= \h24
                 h2   == IF wrap THEN 0 ELSE hour
                 s1   == IF wrap THEN CountDay(s) ELSE s
                 pm2  == IF h2 >= \h12 THEN \h40 ELSE 0
             IN  SetDT(s1, 4, BitOr(h2, pm2))
        ELSE \* 12-hour mode
             LET wrap == hour >= \h12
                 h2   == IF wrap THEN 0 ELSE hour
                 s1   == IF wrap /\ pm # 0 THEN CountDay(s) ELSE s
                 pm2  == IF wrap THEN BitXor(pm, \h40) ELSE pm
             IN  SetDT(s1, 4, BitOr(h2, pm2))

\* void CountMinute()
CountMinute(s) ==
    LET s1 == [s EXCEPT !.MinuteCount = s.MinuteCount + 1]
        s2 == SetDT(s1, 5, BCDIncrement(s1.DateTime[5]))
    IN  IF s2.DateTime[5] >= \h60 THEN CountHour(SetDT(s2, 5, 0)) ELSE s2

\* void CountSecond()
CountSecond(s) ==
    LET s1 == SetDT(s, 6, BCDIncrement(s.DateTime[6]))
    IN  IF s1.DateTime[6] >= \h60 THEN CountMinute(SetDT(s1, 6, 0)) ELSE s1

----------------------------------------------------------------------------
(* Host-side date/time mutator.                                             *)

\* int monthdays[13], with monthdays[2] = 29 when !(year & 3)
MonthDays(year, m) ==
    IF m = 2 THEN (IF BitAnd(year, 3) = 0 THEN 29 ELSE 28)
    ELSE IF m \in {4, 6, 9, 11} THEN 30
    ELSE IF m = 0 THEN 0
    ELSE 31

RECURSIVE DaysBefore(_, _)
\* the loop for (m = 1; m < month; m++) numdays += monthdays[m]
DaysBefore(year, month) ==
    IF month <= 1 THEN 0
    ELSE DaysBefore(year, month - 1) + MonthDays(year, month - 1)

\* the end of SetDateTime: the day of the week and the stores, the arguments
\* being within their ranges
SetDateTimeStore(s, y, mo, d, h, pm, mi, se) ==
    [s EXCEPT !.DateTime = [i \in 0..6 |->
                  CASE i = 0 -> BCD(y)
                    [] i = 1 -> BCD(mo)
                    [] i = 2 -> BCD(d)
                    [] i = 3 -> (6 + (y * 365) + ((y + 3) \div 4)
                                   + DaysBefore(y, mo) + (d - 1)) % 7
                    [] i = 4 -> BitOr(BCD(IF BitAnd(s.StatusReg1, 2) = 0 /\ pm # 0
                                          THEN h - 12 ELSE h), pm)
                    [] i = 5 -> BCD(mi)
                    [] i = 6 -> BCD(se)],
              !.StatusReg1 = BitAnd(s.StatusReg1, \h7F)]

\* SetDateTime once year and month are within their ranges
SetDateTimeChecked(s, y, mo, day, hour, minute, second) ==
    SetDateTimeStore(s, y, mo,
                     IF day < 1 \/ day > MonthDays(y, mo) THEN 1 ELSE day,
                     IF hour < 0 \/ hour > 23 THEN 0 ELSE hour,
                     IF hour >= 12 /\ hour <= 23 THEN \h40 ELSE 0,
                     IF minute < 0 \/ minute > 59 THEN 0 ELSE minute,
                     IF second < 0 \/ second > 59 THEN 0 ELSE second)

\* void SetDateTime(int year, int month, int day, int hour, int minute, int second)
SetDateTime(s, year, month, day, hour, minute, second) ==
    SetDateTimeChecked(s, IF CRem(year, 100) < 0 THEN 0 ELSE CRem(year, 100),
                       IF month < 1 \/ month > 12 THEN 1 ELSE month,
                       day, hour, minute, second)

----------------------------------------------------------------------------
(* The write path of the date/time group.                                   *)

\* void WriteDateTime(int num, u8 val)
WriteDateTime(s, num, val) ==
    CASE num = 1 -> SetDT(s, 0, BCDSanitize(val, \h00, \h99))
      [] num = 2 -> SetDT(s, 1, BCDSanitize(BitAnd(val, \h1F), \h01, \h12))
      [] num = 3 -> CheckEndOfMonth(
                        SetDT(s, 2, BCDSanitize(BitAnd(val, \h3F), \h01, \h31)))
      [] num = 4 -> SetDT(s, 3, BCDSanitize(BitAnd(val, \h07), \h00, \h06))
      [] num = 5 ->
            LET hour == BitAnd(val, \h3F)
                pm   == BitAnd(val, \h40)
            IN  IF BitAnd(s.StatusReg1, 2) # 0
                THEN LET h2 == BCDSanitize(hour, \h00, \h23)
                     IN  SetDT(s, 4, BitOr(h2, IF h2 >= \h12 THEN \h40 ELSE 0))
                ELSE SetDT(s, 4, BitOr(BCDSanitize(hour, \h00, \h11), pm))
      [] num = 6 -> SetDT(s, 5, BCDSanitize(BitAnd(val, \h7F), \h00, \h59))
      [] num = 7 -> SetDT(s, 6, BCDSanitize(BitAnd(val, \h7F), \h00, \h59))
      [] OTHER   -> s

\* the loop of SetState from index i on: WriteDateTime(i+1, State.DateTime[i])
RECURSIVE SetStateLoop(_, _)
SetStateLoop(s, i) ==
    IF i >= 7 THEN s
    ELSE SetStateLoop(WriteDateTime(s, i + 1, s.DateTime[i]), i + 1)

\* void SetState(StateData& state): the register file afterwards
SetState(state) == SetStateLoop(state, 0)

----------------------------------------------------------------------------
(* Command processor.                                                       *)

\* every console taken for the variant with the extended command set
IsDSiAlways(console) == TRUE

\* NDS::ConsoleType == 1: the variant with the extended command set
IsDSi(console) == console = 1

\* memcpy(Output, src, n): the first n bytes of Output replaced
Memcpy(out, src, n) == [i \in 0..7 |-> IF i < n THEN src[i] ELSE out[i]]

\* status register 1 keeping its bits 4-7 when it is read
ClearAutoBitsNever(v) == v

\* State.StatusReg1 &= 0x0F: clear auto-clearing bit4-7
ClearAutoBits(v) == BitAnd(v, \h0F)

\* void CmdRead(): the register file and the output buffer afterwards
CmdRead(s, out, cmd, console) ==
    LET grp  == BitAnd(cmd, \h70)
        same == [st |-> s, out |-> out]
        put0(v) == [st |-> s, out |-> [out EXCEPT ![0] = v]]
    IN  IF BitAnd(cmd, \h0F) = \h06 THEN
            CASE grp = \h00 ->
                    [st  |-> [s EXCEPT !.StatusReg1 = ClearAutoBits(s.StatusReg1)],
                     out |-> [out EXCEPT ![0] = s.StatusReg1]]
              [] grp = \h40 -> put0(s.StatusReg2)
              [] grp = \h20 -> [st |-> s, out |-> Memcpy(out, s.DateTime, 7)]
              [] grp = \h60 ->
                    [st |-> s,
                     out |-> Memcpy(out, [i \in 0..2 |-> s.DateTime[i + 4]], 3)]
              [] grp = \h10 ->
                    IF BitAnd(s.StatusReg2, \h04) # 0
                    THEN [st |-> s, out |-> Memcpy(out, s.Alarm1, 3)]
                    ELSE put0(s.Alarm1[2])
              [] grp = \h50 -> [st |-> s, out |-> Memcpy(out, s.Alarm2, 3)]
              [] grp = \h30 -> put0(s.ClockAdjust)
              [] grp = \h70 -> put0(s.FreeReg)
        ELSE IF BitAnd(cmd, \h0F) = \h0E THEN
            IF ~IsDSi(console) THEN same
            ELSE CASE grp = \h00 ->
                    [st |-> s,
                     out |-> [out EXCEPT
                                ![0] = BitAnd(Shr(s.MinuteCount, 16), \hFF),
                                ![1] = BitAnd(Shr(s.MinuteCount, 8), \hFF),
                                ![2] = BitAnd(s.MinuteCount, \hFF)]]
              [] grp = \h40 -> put0(s.FOUT1)
              [] grp = \h20 -> put0(s.FOUT2)
              [] grp = \h10 -> [st |-> s, out |-> Memcpy(out, s.AlarmDate1, 3)]
              [] grp = \h50 -> [st |-> s, out |-> Memcpy(out, s.AlarmDate2, 3)]
              [] OTHER -> same
        ELSE same

\* the status register 1 write without the conversion of the hour
WriteStatusReg1NoConvert(s, val) ==
    LET s1 == IF BitAnd(val, 1) # 0 THEN ResetState ELSE s
    IN  [s1 EXCEPT !.StatusReg1 =
                BitOr(BitAnd(s1.StatusReg1, \hF0), BitAnd(val, \h0E))]

\* case 0x00 of CmdWrite: the status register 1 write with its side effects
WriteStatusReg1(s, val) ==
    LET oldval == s.StatusReg1
        s1 == IF BitAnd(val, 1) # 0 THEN ResetState ELSE s
        s2 == [s1 EXCEPT !.StatusReg1 =
                    BitOr(BitAnd(s1.StatusReg1, \hF0), BitAnd(val, \h0E))]
    IN  IF BitAnd(BitXor(s2.StatusReg1, oldval), 2) # 0
        THEN LET hour == BitAnd(s2.DateTime[4], \h3F)
                 pm   == BitAnd(s2.DateTime[4], \h40)
             IN  IF BitAnd(s2.StatusReg1, 2) # 0
                 THEN \* to 24-hour mode
                      LET h1 == IF pm # 0 THEN U8(hour + \h12) ELSE hour
                          h2 == IF pm # 0 /\ BitAnd(h1, \h0F) >= \h0A
                                THEN U8(h1 + \h06) ELSE h1
                      IN  SetDT(s2, 4, BitOr(BCDSanitize(h2, \h00, \h23), pm))
                 ELSE \* to 12-hour mode
                      LET big == hour >= \h12
                          h1  == IF big THEN U8(hour - \h12) ELSE hour
                          h2  == IF big /\ BitAnd(h1, \h0F) >= \h0A
                                 THEN U8(h1 - \h06) ELSE h1
                          pm2 == IF big THEN \h40 ELSE 0
                      IN  SetDT(s2, 4, BitOr(BCDSanitize(h2, \h00, \h11), pm2))
        ELSE s2

\* void CmdWrite(u8 val): the register file afterwards
CmdWrite(s, cmd, pos, val, console) ==
    LET grp == BitAnd(cmd, \h70)
    IN  IF BitAnd(cmd, \h0F) = \h06 THEN
            CASE grp = \h00 -> IF pos = 1 THEN WriteStatusReg1(s, val) ELSE s
              [] grp = \h40 ->
                    IF pos = 1 THEN [s EXCEPT !.StatusReg2 = val] ELSE s
              [] grp = \h20 -> IF pos <= 7 THEN WriteDateTime(s, pos, val) ELSE s
              [] grp = \h60 ->
                    IF pos <= 3 THEN WriteDateTime(s, pos + 4, val) ELSE s
              [] grp = \h10 ->
                    IF BitAnd(s.StatusReg2, \h04) # 0
                    THEN (IF pos <= 3 THEN [s EXCEPT !.Alarm1[pos - 1] = val] ELSE s)
                    ELSE (IF pos = 1 THEN [s EXCEPT !.Alarm1[2] = val] ELSE s)
              [] grp = \h50 ->
                    IF pos <= 3 THEN [s EXCEPT !.Alarm2[pos - 1] = val] ELSE s
              [] grp = \h30 ->
                    IF pos = 1 THEN [s EXCEPT !.ClockAdjust = val] ELSE s
              [] grp = \h70 -> IF pos = 1 THEN [s EXCEPT !.FreeReg = val] ELSE s
        ELSE IF BitAnd(cmd, \h0F) = \h0E THEN
            IF ~IsDSi(console) THEN s
            ELSE CASE grp = \h00 -> s
              [] grp = \h40 -> IF pos = 1 THEN [s EXCEPT !.FOUT1 = val] ELSE s
              [] grp = \h20 -> IF pos = 1 THEN [s EXCEPT !.FOUT2 = val] ELSE s
              [] grp = \h10 ->
                    IF pos <= 3 THEN [s EXCEPT !.AlarmDate1[pos - 1] = val] ELSE s
              [] grp = \h50 ->
                    IF pos <= 3 THEN [s EXCEPT !.AlarmDate2[pos - 1] = val] ELSE s
              [] OTHER -> s
        ELSE s

\* u8 rev[16] of the base command set, by the low nibble of the byte
Rev6 == <<\h06, \h86, \h46, \hC6, \h26, \hA6, \h66, \hE6,
          \h16, \h96, \h56, \hD6, \h36, \hB6, \h76, \hF6>>

\* u8 rev[16] of the extended command set
RevE == <<\h0E, \h8E, \h4E, \hCE, \h2E, \hAE, \h6E, \hEE,
          \h1E, \h9E, \h5E, \hDE, \h3E, \hBE, \h7E, \hFE>>

\* the first byte taken for the command as it is
DecodeCmdAsSent(val, console) == val

\* the command decode of ByteIn (InputPos == 0): the value CurCmd gets
DecodeCmd(val, console) ==
    LET c1 == IF BitAnd(val, \hF0) = \h60 THEN Rev6[BitAnd(val, \h0F) + 1] ELSE val
    IN  IF IsDSi(console) /\ BitAnd(c1, \hF0) = \h70 /\ BitAnd(c1, \hFE) # \h76
        THEN RevE[BitAnd(c1, \h0F) + 1]
        ELSE c1

\* void ByteIn(u8 val): CurCmd, the register file and the output buffer afterwards,
\* and whether the byte was taken as the command or handed to CmdWrite
ByteIn(s, out, cmd, pos, val, console) ==
    IF pos = 0
    THEN LET c == DecodeCmd(val, console)
         IN  IF BitAnd(c, \h80) # 0
             THEN LET r == CmdRead(s, out, c, console)
                  IN  [cmd |-> c, st |-> r.st, out |-> r.out, took |-> "command"]
             ELSE [cmd |-> c, st |-> s, out |-> out, took |-> "command"]
    ELSE [cmd |-> cmd, st |-> CmdWrite(s, cmd, pos, val, console), out |-> out,
          took |-> "data"]

----------------------------------------------------------------------------
(* Tick scheduling.                                                         *)

\* ScheduleTimer that drops the remainder instead of carrying it
ScheduleTimerNoCarry(first, err) ==
    [delay |-> Shr(33513982, 15), err |-> 0]

\* void ScheduleTimer(bool first): the delay scheduled and the carried error
ScheduleTimer(first, err) ==
    LET e0       == IF first THEN 0 ELSE err
        sysclock == 33513982 + e0
    IN  [delay |-> Shr(sysclock, 15), err |-> BitAnd(sysclock, \h7FFF)]

----------------------------------------------------------------------------
(* Bounds of the model.                                                     *)

\* bytes shifted in per session of the serial-interface specification
MaxSerialBytes == 2

\* read-direction shifts per session
MaxReadShifts == 66

\* bits the host shifts out of a status register read
MaxStatusShifts == 9

\* seconds counted per behaviour of the main specification
MaxSeconds == 1

\* calls of CountSecond per behaviour of the calendar specification
MaxTickSeconds == 2

\* calls of CountSecond per behaviour of the day-length specification
MaxDaySeconds == 172800

\* ClockTimer callbacks followed one by one: a second and a half, so that the
\* windows of 0x8000 reschedules start from every carried error of a parity
MaxCallbacks == 49152

----------------------------------------------------------------------------
(* The serial interface: one call of Write(val, byte).                      *)

\* the data bit latched most significant bit first
LatchBitMsbFirst(input, inputBit, val) ==
    IF BitAnd(val, \h0001) # 0 THEN U8(BitOr(input, Shl(1, 7 - inputBit))) ELSE input

\* Input |= (1<<InputBit) when the data bit of val is set
LatchBit(input, inputBit, val) ==
    IF BitAnd(val, \h0001) # 0 THEN U8(BitOr(input, Shl(1, inputBit))) ELSE input

\* the bit taken from the date/time register as it is at the shift, in a
\* session of the date/time read command, instead of from the output buffer
OutputBitSetLive(out, outputPos, outputBit) ==
    IF CurCmd = \hA6 /\ outputPos <= 6
    THEN BitAnd(State.DateTime[outputPos], Shl(1, outputBit)) # 0
    ELSE BitAnd(out[outputPos], Shl(1, outputBit)) # 0

\* Output[OutputPos] & (1<<OutputBit)
OutputBitSet(out, outputPos, outputBit) ==
    BitAnd(out[outputPos], Shl(1, outputBit)) # 0

\* OutputPos wrapping to the start of the buffer instead of saturating
NextOutputPosWrapping(outputPos) == (outputPos + 1) % 8

\* if (OutputPos < 7) OutputPos++
NextOutputPos(outputPos) == IF outputPos < 7 THEN outputPos + 1 ELSE outputPos

NoByte == [val |-> -1, took |-> "none"]

\* the bits b0, b1, ... of a sequence read as a number, b0 the least significant
RECURSIVE BitsValue(_)
BitsValue(bits) ==
    IF bits = <<>> THEN 0 ELSE Head(bits) + 2 * BitsValue(Tail(bits))

\* a chip-select edge that is never seen
StartsTransferNever(io, val) == FALSE

\* if (val & 0x0004) if (!(IO & 0x0004)): the write that starts a transfer
StartsTransfer(io, val) == BitAnd(val, \h0004) # 0 /\ BitAnd(io, \h0004) = 0

\* memset(Output, 0, sizeof(Output))
ClearedOutput == [i \in 0..7 |-> 0]

\* The bytes the host assembles are drawn from cmds (the first byte of a
\* session) and data[<<CurCmd, InputPos>>] (the later ones): a bit is shifted
\* in only while the bits sent since the last byte boundary (shiftedIn, first
\* bit least significant) are the low part of one of them.
Allowed(cmds, data) ==
    IF InputPos = 0 THEN cmds
    ELSE IF <<CurCmd, InputPos>> \in DOMAIN data THEN data[<<CurCmd, InputPos>>]
    ELSE {}

Assembles(sent, nbits, bytes) == \E b \in bytes : b % (2 ^ nbits) = sent

\* the end of Write in write direction: IO = val
LatchWrite(val) == val

\* the end of Write in read direction: IO = (IO & 0x0001) | (val & 0xFFFE)
LatchRead(io, val) == BitOr(BitAnd(io, \h0001), BitAnd(val, \hFFFE))

\* Write, CS set with the latched CS clear: the transfer starts
TransferStart(val) ==
    /\ Input' = 0
    /\ InputBit' = 0
    /\ InputPos' = 0
    /\ Output' = ClearedOutput
    /\ OutputBit' = 0
    /\ OutputPos' = 0
    /\ IO' = IF BitAnd(val, \h0010) # 0 THEN LatchWrite(val) ELSE LatchRead(IO, val)
    /\ shiftedIn' = <<>>
    /\ byteIn' = NoByte
    /\ readShifts' = 0
    /\ UNCHANGED <<CurCmd, State, readBack>>

\* Write, clock low in write direction, InputBit reaching 8: ByteIn(Input)
\* returned r for the assembled byte in1
DeliverByte(val, in1, r) ==
    /\ Input' = 0
    /\ InputBit' = 0
    /\ InputPos' = InputPos + 1
    /\ Output' = r.out
    /\ CurCmd' = r.cmd
    /\ State' = r.st
    /\ IO' = LatchWrite(val)
    /\ shiftedIn' = IF Len(shiftedIn) = 7 THEN <<>>
                    ELSE Append(shiftedIn, BitAnd(val, \h0001))
    /\ byteIn' = [val |-> in1, took |-> r.took]
    /\ readBack' = IF InputPos = 0 /\ r.cmd = \h86
                   THEN (IF readBack = <<>> THEN <<r.out[0]>>
                         ELSE <<readBack[Len(readBack)], r.out[0]>>)
                   ELSE IF InputPos = 1 /\ BitAnd(CurCmd, \h7F) = \h06 THEN <<>>
                   ELSE readBack
    /\ UNCHANGED <<OutputBit, OutputPos, readShifts>>

\* Write, clock low in write direction: the data bit is latched into Input
ShiftIn(val, in1, cmds, data) ==
    /\ Assembles(BitsValue(Append(shiftedIn, BitAnd(val, \h0001))),
                 Len(shiftedIn) + 1, Allowed(cmds, data))
    /\ IF InputBit + 1 >= 8
       THEN DeliverByte(val, in1,
                        ByteIn(State, Output, CurCmd, InputPos, in1, ConsoleType))
       ELSE /\ Input' = in1
            /\ InputBit' = InputBit + 1
            /\ IO' = LatchWrite(val)
            /\ shiftedIn' = IF Len(shiftedIn) = 7 THEN <<>>
                            ELSE Append(shiftedIn, BitAnd(val, \h0001))
            /\ byteIn' = NoByte
            /\ UNCHANGED <<InputPos, Output, OutputBit, OutputPos, CurCmd, State,
                           readShifts, readBack>>

\* Write, clock low in read direction: a bit of Output goes to bit 0 of IO
ShiftOut(val) ==
    /\ readShifts < MaxReadShifts
    /\ IO' = LatchRead(IF OutputBitSet(Output, OutputPos, OutputBit)
                       THEN BitOr(IO, \h0001) ELSE BitAnd(IO, \hFFFE), val)
    /\ IF OutputBit + 1 >= 8
       THEN OutputBit' = 0 /\ OutputPos' = NextOutputPos(OutputPos)
       ELSE OutputBit' = OutputBit + 1 /\ OutputPos' = OutputPos
    /\ byteIn' = NoByte
    /\ readShifts' = readShifts + 1
    /\ UNCHANGED <<Input, InputBit, InputPos, Output, CurCmd, State, shiftedIn,
                   readBack>>

\* Write with no protocol effect: CS clear, or the clock high
LatchOnly(val) ==
    /\ IO' = IF BitAnd(val, \h0010) # 0 THEN LatchWrite(val) ELSE LatchRead(IO, val)
    /\ byteIn' = NoByte
    /\ UNCHANGED <<Input, InputBit, InputPos, Output, OutputBit, OutputPos, CurCmd,
                   State, shiftedIn, readShifts, readBack>>

\* Write after if (byte) val |= (IO & 0xFF00)
WriteVal(val, cmds, data) ==
    /\ IF BitAnd(val, \h0004) # 0
       THEN IF StartsTransfer(IO, val) THEN TransferStart(val)
            ELSE IF BitAnd(val, \h0002) = 0
            THEN IF BitAnd(val, \h0010) # 0
                 THEN ShiftIn(val, LatchBit(Input, InputBit, val), cmds, data)
                 ELSE ShiftOut(val)
            ELSE LatchOnly(val)
       ELSE LatchOnly(val)
    /\ UNCHANGED <<TimerError, ClockCount, ConsoleType, lastDelay, seconds, lastDayAt,
                   span>>

\* void Write(u16 val, bool byte)
Write(val, byte, cmds, data) ==
    WriteVal(IF byte THEN BitOr(val, BitAnd(IO, \hFF00)) ELSE val, cmds, data)

\* u16 Read()
Read == IO

----------------------------------------------------------------------------
(* The other operations.                                                    *)

serialVars == <<IO, Input, InputBit, InputPos, Output, OutputBit, OutputPos,
                CurCmd, shiftedIn, byteIn, readShifts, readBack>>

\* the window of the last 0x8000 calls of ScheduleTimer after one more call,
\* which handed over delay: the oldest call leaves a full window, and is
\* recomputed from the error it started from
SpanSlide(sp, delay) ==
    IF sp.n < \h8000
    THEN [sp EXCEPT !.n = sp.n + 1, !.cycles = sp.cycles + delay]
    ELSE [n        |-> sp.n,
          cycles   |-> sp.cycles + delay - ScheduleTimer(FALSE, sp.lagError).delay,
          lagError |-> ScheduleTimer(FALSE, sp.lagError).err]

\* the window with no call in it, the next call starting from the error err
SpanFrom(err) == [n |-> 0, cycles |-> 0, lagError |-> err]

\* void Reset()
Reset ==
    LET sch == ScheduleTimer(TRUE, TimerError)
    IN  /\ Input' = 0
        /\ InputBit' = 0
        /\ InputPos' = 0
        /\ Output' = ClearedOutput
        /\ OutputPos' = 0
        /\ CurCmd' = 0
        /\ ClockCount' = 0
        /\ TimerError' = sch.err
        /\ lastDelay' = sch.delay
        /\ shiftedIn' = <<>>
        /\ byteIn' = NoByte
        /\ span' = SpanSlide(SpanFrom(0), sch.delay)
        /\ UNCHANGED <<IO, OutputBit, State, ConsoleType, readShifts, readBack,
                       seconds, lastDayAt>>

\* void ClockTimer(u32 param): one callback of the scheduler
ClockTimerOp(cc, err, s) ==
    LET cc1 == cc + 1
        sch == ScheduleTimer(FALSE, err)
    IN  [ClockCount |-> cc1,
         State      |-> IF BitAnd(cc1, \h7FFF) = 0 THEN CountSecond(s) ELSE s,
         TimerError |-> sch.err,
         lastDelay  |-> sch.delay,
         counted    |-> BitAnd(cc1, \h7FFF) = 0]

\* n >= 1 consecutive ClockTimer callbacks none of which reaches a second
\* boundary: ClockCount and the carried error after them, and the last delay
IdleOp(cc, err, n) ==
    [ClockCount |-> cc + n,
     TimerError |-> (err + n * (33513982 % 32768)) % 32768,
     lastDelay  |-> Shr(33513982 + ((err + (n - 1) * (33513982 % 32768)) % 32768), 15)]

\* the observers of a callback that took the register file from s to s1
Observe(counted, s, s1) ==
    /\ seconds' = IF counted THEN seconds + 1 ELSE seconds
    /\ lastDayAt' = IF counted /\ s1.DateTime[2] # s.DateTime[2]
                    THEN seconds + 1 ELSE lastDayAt

\* ticks left before the next second boundary
ToBoundary(cc) == 32768 - (cc % 32768)

\* the globals after a callback that computed r
ClockTimerDone(r) ==
    /\ ClockCount' = r.ClockCount
    /\ State' = r.State
    /\ TimerError' = r.TimerError
    /\ lastDelay' = r.lastDelay
    /\ span' = SpanSlide(span, r.lastDelay)
    /\ Observe(r.counted, State, r.State)
    /\ UNCHANGED <<serialVars, ConsoleType>>

\* The ClockTimer callback that completes a second.
ClockTimer(maxSeconds, maxMinutes) ==
    /\ ToBoundary(ClockCount) = 1
    /\ seconds < maxSeconds
    /\ State.MinuteCount < maxMinutes
    /\ ClockTimerDone(ClockTimerOp(ClockCount, TimerError, State))

\* Any one ClockTimer callback.
ClockTimerCall(maxCallbacks) ==
    /\ ClockCount < maxCallbacks
    /\ ClockTimerDone(ClockTimerOp(ClockCount, TimerError, State))

\* the globals after the callbacks that computed r
IdleTicksDone(r) ==
    /\ ClockCount' = r.ClockCount
    /\ TimerError' = r.TimerError
    /\ lastDelay' = r.lastDelay
    /\ span' = SpanFrom(r.TimerError)
    /\ UNCHANGED <<serialVars, State, ConsoleType, seconds, lastDayAt>>

\* The ClockTimer callbacks before the one that completes the second, with no
\* register access in between.  The window of delays is not followed through
\* them: it starts again after them.
IdleTicks(maxSeconds) ==
    /\ ToBoundary(ClockCount) > 1
    /\ seconds < maxSeconds
    /\ IdleTicksDone(IdleOp(ClockCount, TimerError, ToBoundary(ClockCount) - 1))

\* One call of CountSecond() on its own.
CountSecondCall(maxSeconds) ==
    LET s1 == CountSecond(State)
    IN  /\ seconds < maxSeconds
        /\ State' = s1
        /\ Observe(TRUE, State, s1)
        /\ UNCHANGED <<serialVars, TimerError, ClockCount, ConsoleType, lastDelay, span>>

\* A host call SetDateTime(year, month, day, hour, minute, second).
SetDateTimeCall(args) ==
    /\ State' = SetDateTime(State, args[1], args[2], args[3], args[4], args[5], args[6])
    /\ UNCHANGED <<serialVars, TimerError, ClockCount, ConsoleType, lastDelay,
                   seconds, lastDayAt, span>>

\* A frontend call SetState(state).
SetStateCall(state) ==
    /\ State' = SetState(state)
    /\ UNCHANGED <<serialVars, TimerError, ClockCount, ConsoleType, lastDelay,
                   seconds, lastDayAt, span>>

\* void DoSavestate(Savestate* file): when the file is being saved every Var
\* call copies the global into the file and the globals stay as they are; when
\* it is being loaded every Var call copies the file's value into the global.
\* The bits of the loaded Input are the bits shifted in; the scheduler is not
\* part of the section.
DoSavestate(file, saving) ==
    IF saving THEN UNCHANGED vars
    ELSE /\ IO' = file.IO
         /\ Input' = file.Input
         /\ InputBit' = file.InputBit
         /\ InputPos' = file.InputPos
         /\ Output' = file.Output
         /\ OutputBit' = file.OutputBit
         /\ OutputPos' = file.OutputPos
         /\ CurCmd' = file.CurCmd
         /\ State' = file.State
         /\ TimerError' = file.TimerError
         /\ ClockCount' = file.ClockCount
         /\ shiftedIn' = [k \in 1..file.InputBit |-> Shr(file.Input, k - 1) % 2]
         /\ byteIn' = NoByte
         /\ readShifts' = 8 * file.OutputPos + file.OutputBit
         /\ readBack' = <<>>
         /\ span' = SpanFrom(file.TimerError)
         /\ UNCHANGED <<ConsoleType, lastDelay, seconds, lastDayAt>>

----------------------------------------------------------------------------
(* The state after construction: Init() and the first Reset(), the globals  *)
(* zero-initialised.                                                        *)

InitWith(s, console) ==
    LET sch == ScheduleTimer(TRUE, 0)
    IN  /\ IO = 0
        /\ Input = 0
        /\ InputBit = 0
        /\ InputPos = 0
        /\ Output = ClearedOutput
        /\ OutputBit = 0
        /\ OutputPos = 0
        /\ CurCmd = 0
        /\ State = s
        /\ TimerError = sch.err
        /\ ClockCount = 0
        /\ lastDelay = sch.delay
        /\ ConsoleType = console
        /\ shiftedIn = <<>>
        /\ byteIn = NoByte
        /\ readShifts = 0
        /\ readBack = <<>>
        /\ seconds = 0
        /\ lastDayAt = -1
        /\ span = SpanSlide(SpanFrom(0), sch.delay)

Init == \E console \in {0, 1} : InitWith(InitState, console)

----------------------------------------------------------------------------
(* Spec: the host writes the control register (sessions of the date/time    *)
(* write and of the status register 1 write, left after any byte), the      *)
(* scheduler runs ClockTimer, the frontend calls SetDateTime.               *)

\* CS clear; CS set in write direction with SCLK low and either data bit
WriteVals == {\h0000, \h0014, \h0015}

Cmds == {\h26, \h06}

\* the seven bytes of the date/time group: a year, an hour and a minute that
\* are within range but not BCD, February or a month out of range, day 0x31,
\* a day of the week out of range, second 0x59; the status register 1 byte
CmdData ==
    [x \in ({\h26} \X (1..7)) \cup {<<\h06, 1>>} |->
        CASE x = <<\h26, 1>> -> {\h0A}
          [] x = <<\h26, 2>> -> {\h02, \h13}
          [] x = <<\h26, 3>> -> {\h31}
          [] x = <<\h26, 4>> -> {\h07}
          [] x = <<\h26, 5>> -> {\h1A}
          [] x = <<\h26, 6>> -> {\h5A}
          [] x = <<\h26, 7>> -> {\h59}
          [] OTHER -> {\h00, \h02}]

\* arguments of SetDateTime: the last second of 1999, and a value out of range
\* in every position
DateTimeArgs == {<<1999, 12, 31, 23, 59, 59>>, <<-1, 13, 32, 24, 60, 60>>}

\* the host ends a session between two bytes
WriteStep ==
    \E val \in WriteVals :
        /\ (BitAnd(val, \h0004) = 0 /\ BitAnd(IO, \h0004) # 0) => InputBit = 0
        /\ Write(val, FALSE, Cmds, CmdData)

ClockTimerStep == ClockTimer(MaxSeconds, MaxSeconds)

IdleTicksStep == IdleTicks(MaxSeconds)

SetDateTimeStep == \E args \in DateTimeArgs : SetDateTimeCall(args)

Next ==
    \/ WriteStep
    \/ ClockTimerStep
    \/ IdleTicksStep
    \/ SetDateTimeStep

\* the original console: the two commands are the same on both
InitNds == InitWith(InitState, 0)

Spec == InitNds /\ [][Next]_vars

----------------------------------------------------------------------------
(* SpecStatusRead: sessions of the status register 1 read command 0x86,     *)
(* whose byte the host shifts out, and of the write command 0x06; a data    *)
(* byte sent after the read command is included.  SetDateTime and Reset run *)
(* at any time.                                                             *)

\* CS clear; CS set with SCLK low: write direction with either data bit, and
\* read direction
StatusVals == {\h0000, \h0014, \h0015, \h0004}

StatusCmds == {\h86, \h06}

StatusData ==
    [x \in {<<\h06, 1>>, <<\h86, 1>>} |->
        IF x = <<\h06, 1>> THEN {\h00, \h0E} ELSE {\h02}]

\* the host ends a session between two bytes, and shifts bits out only after
\* a read command, the whole of what it reads before it sends anything more
StatusWrite ==
    \E val \in StatusVals :
        /\ (BitAnd(val, \h0004) = 0 /\ BitAnd(IO, \h0004) # 0) => InputBit = 0
        /\ (BitAnd(val, \h0014) = \h0004 /\ BitAnd(IO, \h0004) # 0)
              => (InputPos = 1 /\ InputBit = 0 /\ BitAnd(CurCmd, \h80) # 0)
        /\ (BitAnd(val, \h0014) = \h0014 /\ BitAnd(IO, \h0004) # 0)
              => readShifts \in {0, MaxStatusShifts}
        /\ readShifts < MaxStatusShifts \/ BitAnd(val, \h0014) # \h0004
              \/ BitAnd(IO, \h0004) = 0
        /\ Write(val, FALSE, StatusCmds, StatusData)

NextStatusRead ==
    \/ StatusWrite
    \/ SetDateTimeStep
    \/ Reset

SpecStatusRead == Init /\ [][NextStatusRead]_vars

----------------------------------------------------------------------------
(* SpecSerial: the serial interface alone.  Every combination of the        *)
(* chip-select, clock, data and direction bits is written, as a word or as  *)
(* a byte, in any order; the bytes assembled are the commands SerialCmds    *)
(* and the data bytes SerialData.                                           *)

\* control values: data (bit 0), SCLK (bit 1), CS (bit 2), direction (bit 4)
SerialVals ==
    {d + 2 * c + 4 * s + 16 * w : d \in {0, 1}, c \in {0, 1}, s \in {0, 1}, w \in {0, 1}}

\* the calls Write(val, byte): every control value as a word, two as a byte
SerialWrites ==
    {<<val, FALSE>> : val \in SerialVals} \cup {<<\h00, TRUE>>, <<\h15, TRUE>>}

\* date/time write, date/time read
SerialCmds == {\h26, \hA6}

SerialData ==
    [x \in SerialCmds \X (1..(MaxSerialBytes - 1)) |-> {\h99}]

WriteSerial == \E w \in SerialWrites : Write(w[1], w[2], SerialCmds, SerialData)

NextSerial == WriteSerial

SpecSerial == Init /\ [][NextSerial]_vars

----------------------------------------------------------------------------
(* SpecTick: CountSecond from the valid date/time states at the edges of    *)
(* every carry, in both hour modes.                                         *)

TickYears == {\h00, \h03, \h04, \h09, \h99}

TickMonths == {\h01, \h02, \h03, \h04, \h05, \h06, \h07, \h08, \h09, \h10, \h11, \h12}

TickDays == {\h01, \h09, \h28, \h29, \h30, \h31}

TickWeekDays == {0, 6}

\* hour bytes valid in 24-hour mode (bit 6 set from 0x12 on) and in 12-hour mode
TickHours24 == {\h00, \h09, \h11, \h52, \h59, \h63}

TickHours12 == {\h00, \h09, \h11, \h40, \h49, \h51}

TickMinutes == {\h00, \h09, \h59}

TickSeconds == {\h09, \h58, \h59}

\* the register file after Init() with the given date/time, in 12-hour mode
\* as Init() leaves status register 1 (0x80), in 24-hour mode as a write of
\* 0x02 to status register 1 followed by a read of it leaves it (0x02)
StateAt(mode24, dt) ==
    [InitState EXCEPT !.StatusReg1 = IF mode24 THEN \h02 ELSE \h80,
                      !.DateTime = [i \in 0..6 |-> dt[i + 1]]]

InitTick ==
    \E mode24 \in BOOLEAN, y \in TickYears, mo \in TickMonths, d \in TickDays,
       wd \in TickWeekDays, mi \in TickMinutes, se \in TickSeconds :
    \E h \in IF mode24 THEN TickHours24 ELSE TickHours12 :
        /\ d <= DaysInMonth(StateAt(mode24, <<y, mo, d, wd, h, mi, se>>))
        /\ InitWith(StateAt(mode24, <<y, mo, d, wd, h, mi, se>>), 0)

NextTick == CountSecondCall(MaxTickSeconds)

SpecTick == InitTick /\ [][NextTick]_vars

----------------------------------------------------------------------------
(* SpecDay: two days of second ticks, in both hour modes, from midnight     *)
(* and from two seconds before the end of the first half of the day.        *)

DayStarts24 == {<<\h00, \h00, \h00>>, <<\h11, \h59, \h58>>}

DayStarts12 == {<<\h00, \h00, \h00>>, <<\h11, \h59, \h58>>}

InitDay ==
    \E mode24 \in BOOLEAN :
    \E t \in IF mode24 THEN DayStarts24 ELSE DayStarts12 :
        InitWith(StateAt(mode24, <<\h00, \h01, \h01, 0, t[1], t[2], t[3]>>), 0)

NextDay == CountSecondCall(MaxDaySeconds)

SpecDay == InitDay /\ [][NextDay]_vars

----------------------------------------------------------------------------
(* SpecDayWrite: one session of the date/time write command 0x26 that       *)
(* writes a year, a month and any day byte.                                 *)

\* CS set, write direction, SCLK low, with either data bit
ShiftVals == {\h0014, \h0015}

DayWriteCmds == {\h26}

DayWriteYears == {\h00, \h01}

DayWriteData ==
    [x \in DayWriteCmds \X (1..3) |->
        IF x[2] = 1 THEN DayWriteYears
        ELSE IF x[2] = 2 THEN TickMonths
        ELSE 0..255]

NextDayWrite == \E val \in ShiftVals : Write(val, FALSE, DayWriteCmds, DayWriteData)

SpecDayWrite == Init /\ [][NextDayWrite]_vars

----------------------------------------------------------------------------
(* SpecStatus1: one session of the status register 1 write command 0x06     *)
(* with any data byte, from every valid hour in both hour modes.            *)

\* the valid hour bytes: 24-hour mode has bit 6 set from 12 on
Hours24 == {(n \div 10) * 16 + (n % 10) + (IF n >= 12 THEN \h40 ELSE 0) : n \in 0..23}

Hours12 == {(n \div 10) * 16 + (n % 10) + pm : n \in 0..11, pm \in {0, \h40}}

Status1Cmds == {\h06}

Status1Data == [x \in Status1Cmds \X (1..1) |-> 0..255]

InitStatus1 ==
    \E mode24 \in BOOLEAN, console \in {0, 1} :
    \E h \in IF mode24 THEN Hours24 ELSE Hours12 :
        InitWith(StateAt(mode24, <<\h00, \h01, \h01, 0, h, 0, 0>>), console)

NextStatus1 == \E val \in ShiftVals : Write(val, FALSE, Status1Cmds, Status1Data)

SpecStatus1 == InitStatus1 /\ [][NextStatus1]_vars

----------------------------------------------------------------------------
(* Claims about the serial interface, under SpecSerial.                     *)

Bit(x, i) == Shr(x, i) % 2

Min(a, b) == IF a < b THEN a ELSE b

\* a step of Write with CS set while the latched CS is clear
CsEdge == BitAnd(IO, \h0004) = 0 /\ BitAnd(IO', \h0004) # 0

\* a step of Write that is a write-direction shift: CS already latched, CS set,
\* SCLK low and direction set in the value written (IO' is that value)
WriteShift ==
    /\ BitAnd(IO, \h0004) # 0
    /\ BitAnd(IO', \h0004) # 0
    /\ BitAnd(IO', \h0002) = 0
    /\ BitAnd(IO', \h0010) # 0

C1_Delivered(b) ==
    /\ byteIn' = [val |-> b, took |-> IF InputPos = 0 THEN "command" ELSE "data"]
    /\ Input' = 0
    /\ InputBit' = 0
    /\ InputPos' = InputPos + 1
    /\ InputPos = 0 => CurCmd' = DecodeCmd(b, ConsoleType)

C1_Step ==
    /\ InputBit = Len(shiftedIn)
    /\ Input = BitsValue(shiftedIn)
    /\ (WriteShift /\ Len(shiftedIn) = 7)
          => C1_Delivered(BitsValue(Append(shiftedIn, BitAnd(IO', \h0001))))
    /\ (WriteShift /\ Len(shiftedIn) < 7)
          => /\ byteIn' = NoByte
             /\ InputPos' = InputPos
             /\ InputBit' = InputBit + 1
    /\ (~WriteShift /\ ~CsEdge)
          => /\ byteIn' = NoByte
             /\ Input' = Input
             /\ InputBit' = InputBit
             /\ InputPos' = InputPos

\* C1: serial input is LSB-first.  The bits b0..b7 written on bit 0 by eight
\* write-direction shifts (CS set, SCLK low, direction set) since the last byte
\* boundary are delivered to ByteIn as the byte b0 + 2 b1 + ... + 128 b7, once,
\* on the eighth shift, after which Input = 0, InputBit = 0 and InputPos has
\* grown by 1; the byte is taken as the command when InputPos = 0 and as data
\* otherwise; no other write shifts a bit or delivers a byte.
C1_SerialInputLsbFirst == [][C1_Step]_vars

\* a data byte 0x99 was delivered after the command 0x26, and stored as the year
C1_Witness ==
    /\ byteIn = [val |-> \h99, took |-> "data"]
    /\ CurCmd = \h26
    /\ InputPos = 2
    /\ State.DateTime[0] = \h99

C2_Step ==
    readShifts' = readShifts + 1
        => BitAnd(Read', \h0001)
             = Bit(Output[Min(readShifts \div 8, 7)], readShifts % 8)

\* C2: serial output is LSB-first and saturating.  The k-th read-direction
\* shift of a session puts bit (k mod 8) of Output[min(k div 8, 7)] on bit 0 of
\* the value Read returns; OutputPos and OutputBit never exceed 7.
C2_SerialOutputSaturates ==
    /\ [](OutputPos <= 7 /\ OutputBit <= 7)
    /\ [][C2_Step]_vars

\* the date/time group with year 0x99 was read, and over-read past 64 bits
C2_Witness ==
    /\ readShifts = MaxReadShifts
    /\ CurCmd = \hA6
    /\ Output[0] = \h99
    /\ OutputPos = 7
    /\ OutputBit = MaxReadShifts % 8

C3_Step ==
    CsEdge => /\ Input' = 0
              /\ InputBit' = 0
              /\ InputPos' = 0
              /\ Output' = [i \in 0..7 |-> 0]
              /\ OutputBit' = 0
              /\ OutputPos' = 0
              /\ byteIn' = NoByte
              /\ CurCmd' = CurCmd
              /\ State' = State

\* C3: a Write with chip-select set while the latched control register has
\* chip-select clear leaves Input, InputBit, InputPos, the 8 Output bytes,
\* OutputBit and OutputPos all zero, whatever they were, and that write shifts
\* no bit and delivers no byte.
C3_ChipSelectResetsSession == [][C3_Step]_vars

\* a transfer was started again after a date/time read had filled the buffer
\* and bits had been shifted out: nothing of that session is left
C3_Witness ==
    /\ BitAnd(IO, \h0004) # 0
    /\ CurCmd = \hA6
    /\ State.DateTime[0] = \h99
    /\ InputPos = 0
    /\ InputBit = 0
    /\ Output = ClearedOutput
    /\ OutputBit = 0
    /\ OutputPos = 0
    /\ readShifts = 0

----------------------------------------------------------------------------
(* Claims about the calendar, under SpecTick and SpecDay.                   *)

\* the number a BCD byte stands for, and the BCD byte of a number below 100
Dec(b) == (b \div 16) * 10 + (b % 16)

Enc(n) == (n \div 10) * 16 + (n % 10)

\* the length of a calendar month; February has 29 days when year mod 4 = 0
CalendarDays(month, year) ==
    IF month \in {4, 6, 9, 11} THEN 30
    ELSE IF month = 2 THEN (IF year % 4 = 0 THEN 29 ELSE 28)
    ELSE 31

\* a step that counted one second
SecondTick == seconds' = seconds + 1

Is24h(s) == BitAnd(s.StatusReg1, \h02) # 0

HourOf(s) == BitAnd(s.DateTime[4], \h3F)

PmOf(s) == BitAnd(s.DateTime[4], \h40) # 0

\* the carries out of each field of the state a second tick starts from
SecondWraps == State.DateTime[6] = \h59

MinuteWraps == SecondWraps /\ State.DateTime[5] = \h59

HourWraps ==
    /\ MinuteWraps
    /\ HourOf(State) = (IF Is24h(State) THEN \h23 ELSE \h11)

DayCarry == HourWraps /\ (Is24h(State) \/ PmOf(State))

DayWraps ==
    /\ DayCarry
    /\ Dec(State.DateTime[2])
         >= CalendarDays(Dec(State.DateTime[1]), Dec(State.DateTime[0]))

MonthWraps == DayWraps /\ State.DateTime[1] = \h12

\* the hour byte after a carry from the minutes
C4_NextHour ==
    LET h  == IF HourWraps THEN 0 ELSE Enc(Dec(HourOf(State)) + 1)
        pm == IF Is24h(State) THEN Dec(h) >= 12
              ELSE IF HourWraps THEN ~PmOf(State) ELSE PmOf(State)
    IN  h + (IF pm THEN \h40 ELSE 0)

C4_Step ==
    SecondTick =>
      /\ State'.DateTime[6] = Enc((Dec(State.DateTime[6]) + 1) % 60)
      /\ State'.DateTime[5] = IF SecondWraps
                              THEN Enc((Dec(State.DateTime[5]) + 1) % 60)
                              ELSE State.DateTime[5]
      /\ State'.DateTime[4] = IF MinuteWraps THEN C4_NextHour
                              ELSE State.DateTime[4]
      /\ State'.DateTime[3] = IF DayCarry THEN (State.DateTime[3] + 1) % 7
                              ELSE State.DateTime[3]
      /\ State'.DateTime[2] = IF DayWraps THEN \h01
                              ELSE IF DayCarry THEN Enc(Dec(State.DateTime[2]) + 1)
                              ELSE State.DateTime[2]
      /\ State'.DateTime[1] = IF MonthWraps THEN \h01
                              ELSE IF DayWraps THEN Enc(Dec(State.DateTime[1]) + 1)
                              ELSE State.DateTime[1]
      /\ State'.DateTime[0] = IF MonthWraps
                              THEN Enc((Dec(State.DateTime[0]) + 1) % 100)
                              ELSE State.DateTime[0]

\* C4: from a valid date/time state, CountSecond BCD-increments the second and
\* carries strictly upward: the minute changes only when the second wraps
\* 0x59 -> 0x00, the hour only when the minute wraps, the day and day-of-week
\* only when the hour wraps past midnight, the month only when the day exceeds
\* the month's length (February: 29 days iff the BCD year mod 4 = 0), the year
\* only when the month wraps 0x12 -> 0x01, and the year wraps 0x99 -> 0x00;
\* every field not reached by a carry is unchanged.
C4_CountSecondCarryChain == [][C4_Step]_vars

\* one tick took 99-12-31 23:59:59 to 00-01-01 00:00:00: every carry happened
C4_Witness ==
    /\ seconds = 1
    /\ State.DateTime[0] = \h00
    /\ State.DateTime[1] = \h01
    /\ State.DateTime[2] = \h01
    /\ HourOf(State) = 0
    /\ State.DateTime[5] = 0
    /\ State.DateTime[6] = 0

C5_Step ==
    SecondTick =>
      LET advanced == State'.DateTime[2] # State.DateTime[2]
          since    == IF lastDayAt = -1 THEN 0 ELSE lastDayAt
      IN  /\ (advanced /\ lastDayAt # -1) => seconds' - lastDayAt = 86400
          /\ ~advanced => seconds' - since < 86400
          /\ advanced => Dec(State'.DateTime[2]) = Dec(State.DateTime[2]) + 1
          /\ ~Is24h(State) =>
               /\ (PmOf(State') # PmOf(State))
                     <=> (HourOf(State) = \h11 /\ HourOf(State') = \h00)
               /\ advanced <=> (PmOf(State) /\ ~PmOf(State'))

\* C5: 86400 consecutive second ticks advance the day exactly once, in 24-hour
\* and in 12-hour mode: two successive day advances are 86400 ticks apart and
\* no 86400 ticks pass without one, each advance adds one day; in 12-hour mode
\* the PM flag toggles exactly when the hour wraps 0x11 -> 0x00 and the day
\* advances exactly on the PM -> AM wrap.
C5_DayIs86400Ticks == [][C5_Step]_vars

\* in 12-hour mode the day has advanced twice, the second time at a PM -> AM wrap
C5_Witness ==
    /\ ~Is24h(State)
    /\ lastDayAt > 86400
    /\ seconds = lastDayAt
    /\ State.DateTime[2] = \h03
    /\ State.DateTime[4] = \h00

----------------------------------------------------------------------------
(* Claims about the command processor, under SpecDayWrite and SpecStatus1.  *)

ValidBcd(b) == b % 16 <= 9 /\ b \div 16 <= 9

\* a step that delivered data byte number pos of command cmd
DataByteStep(cmd, pos) ==
    /\ CurCmd = cmd
    /\ InputPos = pos
    /\ InputPos' = pos + 1
    /\ byteIn'.took = "data"

\* the effect of writing the day value d into the stored month and year
DayWritten(d) ==
    LET valid == ValidBcd(d) /\ Dec(d) >= 1 /\ Dec(d) <= 31
        len   == CalendarDays(Dec(State.DateTime[1]), Dec(State.DateTime[0]))
    IN  IF valid /\ Dec(d) > len
        THEN /\ State'.DateTime[2] = \h01
             /\ State'.DateTime[1] = Enc(Dec(State.DateTime[1]) + 1)
             /\ State'.DateTime[0] = State.DateTime[0]
        ELSE /\ State'.DateTime[2] = (IF valid THEN d ELSE \h01)
             /\ State'.DateTime[1] = State.DateTime[1]
             /\ State'.DateTime[0] = State.DateTime[0]

C8_Step == DataByteStep(\h26, 3) => DayWritten(BitAnd(byteIn'.val, \h3F))

C8_StepAsStated == DataByteStep(\h26, 3) => DayWritten(byteIn'.val)

HourOfDay(s) ==
    IF Is24h(s) THEN Dec(HourOf(s))
    ELSE Dec(HourOf(s)) + (IF PmOf(s) THEN 12 ELSE 0)

\* the hour byte after the hour mode has flipped
Converted ==
    IF Is24h(State)
    THEN IF Dec(HourOf(State)) >= 12
         THEN Enc(Dec(HourOf(State)) - 12) + \h40 ELSE HourOf(State)
    ELSE IF PmOf(State)
         THEN Enc(Dec(HourOf(State)) + 12) + \h40 ELSE HourOf(State)

C9_Flip ==
    (DataByteStep(\h06, 1) /\ BitAnd(byteIn'.val, \h01) = 0
        /\ Is24h(State') # Is24h(State))
    => /\ State'.DateTime[4] = Converted
       /\ HourOfDay(State') = HourOfDay(State)
       /\ ValidBcd(HourOf(State'))
       /\ Dec(HourOf(State')) < (IF Is24h(State') THEN 24 ELSE 12)

C9_Step ==
    /\ C9_Flip
    /\ (DataByteStep(\h06, 1) /\ BitAnd(byteIn'.val, \h01) = 0
           /\ Is24h(State') = Is24h(State))
       => State'.DateTime[4] = State.DateTime[4]

\* C9 (amended): when a status register 1 write without the reset bit flips the
\* 12/24-hour bit, the hour byte is converted at once, denotes the same hour of
\* the day and is valid in the new mode: 12->24 maps hour h with the PM flag to
\* BCD(h+12) and without it to h; 24->12 maps H >= 0x12 to BCD(H-12) with the PM
\* flag set and H < 0x12 to H with the PM flag clear; a write without the reset
\* bit that leaves bit 1 unchanged leaves the hour byte unchanged.
C9_HourModeFlipConverts == [][C9_Step]_vars

\* the write of 0x02 in 12-hour mode (status register 1 still 0x80 from Init)
\* has turned 0x09 PM into 0x21
C9_Witness ==
    /\ CurCmd = \h06
    /\ InputPos = 2
    /\ byteIn = [val |-> \h02, took |-> "data"]
    /\ State.StatusReg1 = \h82
    /\ State.DateTime[4] = \h61

C9_StepAsStated ==
    /\ C9_Flip
    /\ (DataByteStep(\h06, 1) /\ Is24h(State') = Is24h(State))
       => State'.DateTime[4] = State.DateTime[4]

\* C9 as stated: any status register 1 write that leaves bit 1 unchanged, with
\* the reset bit or without it, leaves the hour byte unchanged.
C9_AsStated == [][C9_StepAsStated]_vars

----------------------------------------------------------------------------
(* Claims about the reachable register file, under Spec and SpecStatusRead. *)

\* C6: in every reachable state the date/time register holds valid BCD with
\* year in 0x00..0x99, month in 0x01..0x12, day-of-week in 0..6, minute and
\* second in 0x00..0x59, and the low six bits of the hour byte in 0x00..0x23
\* in 24-hour mode (status register 1 bit 1 set) and in 0x00..0x11 otherwise.
C6_DateTimeFieldsValid ==
    /\ ValidBcd(State.DateTime[0])
    /\ ValidBcd(State.DateTime[1])
    /\ Dec(State.DateTime[1]) >= 1 /\ Dec(State.DateTime[1]) <= 12
    /\ State.DateTime[3] \in 0..6
    /\ ValidBcd(State.DateTime[5]) /\ Dec(State.DateTime[5]) <= 59
    /\ ValidBcd(State.DateTime[6]) /\ Dec(State.DateTime[6]) <= 59
    /\ ValidBcd(HourOf(State))
    /\ Dec(HourOf(State)) <= (IF Is24h(State) THEN 23 ELSE 11)

\* SetDateTime has run (the power-on flag is clear), a second has been
\* counted, and the hour byte 0x1A of a date/time write was stored as 0x00
C6_Witness ==
    /\ seconds = 1
    /\ BitAnd(State.StatusReg1, \h80) = 0
    /\ CurCmd = \h26
    /\ InputPos = 6
    /\ byteIn = [val |-> \h1A, took |-> "data"]
    /\ HourOf(State) = \h00

\* C7 as stated: in every reachable state the day is valid BCD between 0x01
\* and the number of days of the stored month and year (February: 29 iff the
\* decoded year is divisible by 4, else 28).
C7_DayWithinMonth ==
    /\ ValidBcd(State.DateTime[2])
    /\ Dec(State.DateTime[2]) >= 1
    /\ Dec(State.DateTime[2])
         <= CalendarDays(Dec(State.DateTime[1]), Dec(State.DateTime[0]))

\* with no call of SetDateTime and no tick: a date/time session stored day
\* 0x31 in January, and a later one wrote the month byte 0x02 and stopped
C7_FailingState ==
    /\ State.StatusReg1 = \h80
    /\ seconds = 0
    /\ CurCmd = \h26
    /\ InputPos = 3
    /\ byteIn = [val |-> \h02, took |-> "data"]
    /\ State.DateTime[0] = \h00
    /\ State.DateTime[1] = \h02
    /\ State.DateTime[2] = \h31

\* a step that delivered the status register 1 read command
StatusReadStep ==
    /\ InputPos = 0
    /\ InputPos' = 1
    /\ byteIn'.took = "command"
    /\ CurCmd' = \h86

C10_Step ==
    /\ StatusReadStep =>
          /\ Output'[0] = State.StatusReg1
          /\ State'.StatusReg1 = State.StatusReg1 % 16
          /\ readBack # <<>> =>
                Output'[0] = readBack[Len(readBack)] % 16
    /\ (readShifts' = readShifts + 1 /\ readShifts < 8 /\ CurCmd = \h86
           /\ InputPos = 1 /\ readBack # <<>>)
       => Read' % 2 = Bit(readBack[Len(readBack)], readShifts)

\* C10: a read of status register 1 returns the value the register held before
\* it and leaves bits 4..7 of the register zero; a second read, with no write
\* of status register 1 since the first, returns the same bits 0..3 as the
\* first and zero in bits 4..7.  The byte returned is the one the host then
\* shifts out, least significant bit first.
C10_StatusReadTwice == [][C10_Step]_vars

\* 0x8E was read, then 0x0E, with no write of the register between the two,
\* and the second byte has been shifted out
C10_Witness ==
    /\ readBack = <<\h8E, \h0E>>
    /\ CurCmd = \h86
    /\ readShifts = 8
    /\ State.StatusReg1 = \h0E

----------------------------------------------------------------------------
(* SpecStatusReset: one session of the status register 1 write command 0x06 *)
(* with any data byte, from calendars away from the default date, in both   *)
(* hour modes.                                                              *)

\* date/time bytes year .. second, the hour as stored in 24-hour mode and in
\* 12-hour mode
ResetCalendars24 ==
    {<<\h99, \h12, \h31, 6, \h63, \h59, \h59>>,
     <<\h04, \h02, \h29, 3, \h09, \h30, \h15>>,
     <<\h00, \h01, \h01, 0, \h00, \h00, \h00>>}

ResetCalendars12 ==
    {<<\h99, \h12, \h31, 6, \h51, \h59, \h59>>,
     <<\h04, \h02, \h29, 3, \h09, \h30, \h15>>,
     <<\h00, \h01, \h01, 0, \h00, \h00, \h00>>}

InitStatusReset ==
    \E mode24 \in BOOLEAN, console \in {0, 1} :
    \E dt \in IF mode24 THEN ResetCalendars24 ELSE ResetCalendars12 :
        InitWith(StateAt(mode24, dt), console)

NextStatusReset == \E val \in ShiftVals : Write(val, FALSE, Status1Cmds, Status1Data)

SpecStatusReset == InitStatusReset /\ [][NextStatusReset]_vars

----------------------------------------------------------------------------
(* Claims about the status register 1 write, under SpecStatusReset and      *)
(* SpecStatus1.                                                             *)

\* the date/time register at the default date
DefaultDate == <<\h00, \h01, \h01, 0, \h00, \h00, \h00>>

C11_Step ==
    (DataByteStep(\h06, 1) /\ Bit(byteIn'.val, 0) = 1)
    => /\ \A i \in 0..6 : State'.DateTime[i] = DefaultDate[i + 1]
       /\ Bit(State'.DateTime[4], 6) = 0

\* C11: a status register 1 write whose data byte has bit 0 set leaves the
\* date/time register at year 0x00, month 0x01, day 0x01, day-of-week 0, hour
\* 0x00 with the PM flag clear, minute 0x00 and second 0x00, whatever the
\* calendar held before and whatever the other bits of the byte are.
C11_ResetBitGivesDefaultDate == [][C11_Step]_vars

\* the byte 0x03 (reset, and 24-hour mode) has been written and the date/time
\* register holds the default date
C11_Witness ==
    /\ CurCmd = \h06
    /\ InputPos = 2
    /\ byteIn.val = \h03
    /\ State.StatusReg1 = \h02
    /\ \A i \in 0..6 : State.DateTime[i] = DefaultDate[i + 1]
    /\ seconds = 0
    /\ ConsoleType = 1

----------------------------------------------------------------------------
(* SpecSchedule: the ClockTimer callbacks one by one, from the state after  *)
(* construction (carried error 25086 after the first ScheduleTimer) and     *)
(* from a restored carried error of the other parity.                       *)

\* carried errors a savestate restores, DoSavestate reading TimerError as it is
RestoredErrors == {1}

InitSchedule ==
    \/ InitWith(InitState, 0)
    \/ \E err \in RestoredErrors :
          /\ IO = 0
          /\ Input = 0
          /\ InputBit = 0
          /\ InputPos = 0
          /\ Output = ClearedOutput
          /\ OutputBit = 0
          /\ OutputPos = 0
          /\ CurCmd = 0
          /\ State = InitState
          /\ TimerError = err
          /\ ClockCount = 0
          /\ lastDelay = ScheduleTimer(FALSE, 0).delay
          /\ ConsoleType = 0
          /\ shiftedIn = <<>>
          /\ byteIn = NoByte
          /\ readShifts = 0
          /\ readBack = <<>>
          /\ seconds = 0
          /\ lastDayAt = -1
          /\ span = SpanFrom(err)

NextSchedule == ClockTimerCall(MaxCallbacks)

SpecSchedule == InitSchedule /\ [][NextSchedule]_vars

----------------------------------------------------------------------------
(* Claims about the tick scheduling, under SpecSchedule.                    *)

\* a step of one ClockTimer callback
CallbackStep == ClockCount' = ClockCount + 1

C12_Window ==
    span.n = \h8000 => (span.cycles = 33513982 /\ TimerError = span.lagError)

C12_Step ==
    CallbackStep =>
       /\ seconds' = (IF ClockCount' % \h8000 = 0 THEN seconds + 1 ELSE seconds)
       /\ TimerError' = (TimerError + 33513982) % \h8000
       /\ span'.cycles = (IF span.n < \h8000 THEN span.cycles + lastDelay'
                          ELSE span.cycles)
       /\ (seconds' = seconds + 1 /\ (seconds >= 1 \/ span.n = ClockCount + 1))
          => (span.n = \h8000 /\ span.cycles = 33513982)

\* C12: the delays of any 32768 consecutive reschedules with no Reset in
\* between sum to exactly 33513982 host cycles, and the carried error after
\* them is the one they started from, whatever that was; the calendar second
\* advances exactly on every 32768th callback counted since Reset, a callback
\* carries the error on and never resets it, and so the 32768 delays that end
\* at a second tick, counted from the previous one or from Reset, sum to
\* 33513982 host cycles.
C12_SecondSpansSystemClock == []C12_Window /\ [][C12_Step]_vars

\* a second and a half after a restore with the odd carried error 1: the last
\* 32768 delays started from an error of the other half of the cycle of
\* errors and came back to it
C12_Witness ==
    /\ ClockCount = MaxCallbacks
    /\ seconds = 1
    /\ span.n = \h8000
    /\ span.cycles = 33513982
    /\ TimerError = 1
    /\ span.lagError = 1

----------------------------------------------------------------------------
(* SpecCommands: one session from a register file whose registers all hold  *)
(* nonzero bytes.  The first byte is any byte 0x6n or 0x7n, the bit         *)
(* reversal of one, or a byte with another low nibble; a data byte follows  *)
(* the write commands of the year and of the first alarm date, and two data *)
(* bytes follow the commands with no handler.                               *)

\* a register file with every register written (the extended ones as SetState
\* restores them on either console), in 12-hour mode
LoadedState ==
    [StatusReg1  |-> \h80,
     StatusReg2  |-> \h44,
     DateTime    |-> [i \in 0..6 |-> <<\h24, \h02, \h29, 4, \h51, \h37, \h42>>[i + 1]],
     Alarm1      |-> [i \in 0..2 |-> <<\h11, \h12, \h13>>[i + 1]],
     Alarm2      |-> [i \in 0..2 |-> <<\h21, \h22, \h23>>[i + 1]],
     ClockAdjust |-> \h3C,
     FreeReg     |-> \h7F,
     MinuteCount |-> \h000102,
     FOUT1       |-> \hC1,
     FOUT2       |-> \hC2,
     AlarmDate1  |-> [i \in 0..2 |-> <<\hA1, \hA2, \hA3>>[i + 1]],
     AlarmDate2  |-> [i \in 0..2 |-> <<\hB1, \hB2, \hB3>>[i + 1]]]

\* first bytes with the command nibble 0x6 or 0x7 in bits 4..7, and the forms
\* the two tables turn them into
NibbleFirst == {\h60 + n : n \in 0..15} \cup {\h70 + n : n \in 0..15}

TableForms == {Rev6[n + 1] : n \in 0..15} \cup {RevE[n + 1] : n \in 0..15}

\* first bytes of neither command set
OtherFirst == {\h00, \h25, \h8F, \hA3}

CommandFirst == NibbleFirst \cup TableForms \cup OtherFirst

\* whether CmdRead / CmdWrite have a case for the command
HasHandler(cmd, console) ==
    \/ BitAnd(cmd, \h0F) = \h06
    \/ /\ BitAnd(cmd, \h0F) = \h0E
       /\ console = 1
       /\ BitAnd(cmd, \h70) \in {\h00, \h40, \h20, \h10, \h50}

CommandData ==
    [x \in ({\h26, \h1E} \X {1})
           \cup ({c \in 0..255 : ~HasHandler(c, 0) \/ ~HasHandler(c, 1)} \X {1, 2})
       |-> {\h5A}]

InitCommands == \E console \in {0, 1} : InitWith(LoadedState, console)

NextCommands == \E val \in ShiftVals : Write(val, FALSE, CommandFirst, CommandData)

SpecCommands == InitCommands /\ [][NextCommands]_vars

----------------------------------------------------------------------------
(* Claims about the command decode, under SpecCommands.                     *)

\* the 8-bit bit reversal
Rev8(b) ==
    Bit(b, 0) * 128 + Bit(b, 1) * 64 + Bit(b, 2) * 32 + Bit(b, 3) * 16
    + Bit(b, 4) * 8 + Bit(b, 5) * 4 + Bit(b, 6) * 2 + Bit(b, 7)

\* a step that delivered the first byte of a session
CommandByteStep ==
    /\ InputPos = 0
    /\ InputPos' = 1
    /\ byteIn'.took = "command"

\* the first byte b is of the form 0x60|n, or on the console variant of the
\* form 0x70|n other than 0x76 and 0x77
NibbleForm(b) ==
    \/ b \div 16 = 6
    \/ ConsoleType = 1 /\ b \div 16 = 7 /\ b \notin {\h76, \h77}

C13_Step ==
    (CommandByteStep /\ NibbleForm(byteIn'.val)) =>
        LET b     == byteIn'.val
            other == ByteIn(State, Output, CurCmd, InputPos, Rev8(b), ConsoleType)
        IN  /\ CurCmd' = Rev8(b)
            /\ CurCmd' % 16 = (IF b \div 16 = 6 THEN \h6 ELSE \hE)
            /\ CurCmd' = other.cmd
            /\ State' = other.st
            /\ Output' = other.out

\* C13: a first byte 0x60|n, and on the console variant a first byte 0x70|n
\* other than 0x76 and 0x77, is decoded to the same command as its 8-bit bit
\* reversal (low nibble 0x6, respectively 0xE, bits 4..7 the reversed n), and
\* the register file and the output buffer after it are the ones the reversed
\* byte would have left; the later bytes of the session are dispatched on the
\* decoded command alone.
C13_BothBitOrdersDecodeAlike == [][C13_Step]_vars

\* the first byte 0x73 on the console variant was decoded like 0xCE, the read
\* of the first frequency register, whose byte is in the output buffer
C13_Witness ==
    /\ ConsoleType = 1
    /\ byteIn = [val |-> \h73, took |-> "command"]
    /\ CurCmd = \hCE
    /\ Output[0] = \hC1
    /\ InputPos = 1

\* a step that delivered a byte, the first of the session or a later one
ByteStep == InputPos' = InputPos + 1 /\ byteIn'.took \in {"command", "data"}

\* the normalized command cmd is not handled: its low nibble is neither 0x6
\* nor 0xE, or it is 0xE with the console-variant flag off, or it is 0xE with
\* a register group other than 0x00, 0x10, 0x20, 0x40, 0x50
NotHandled(cmd) ==
    \/ cmd % 16 \notin {\h6, \hE}
    \/ cmd % 16 = \hE /\ ConsoleType # 1
    \/ cmd % 16 = \hE /\ (cmd \div 16) % 8 \in {3, 6, 7}

C14_Step ==
    (ByteStep /\ NotHandled(CurCmd')) =>
        /\ State' = State
        /\ Output' = ClearedOutput
        /\ Input' = 0
        /\ InputBit' = 0

\* C14: in a session whose normalized command is not handled - low nibble
\* neither 0x6 nor 0xE, low nibble 0xE with the console-variant flag off, low
\* nibble 0xE with a register group that has no handler - neither the command
\* byte nor a later data byte changes the register file, and the output
\* buffer stays all zero; the byte is consumed like any other and the next
\* byte starts to assemble.
C14_UnhandledCommandChangesNothing == [][C14_Step]_vars

\* the read command 0x9E of the first alarm date and two data bytes were
\* delivered with the console-variant flag off
C14_Witness ==
    /\ ConsoleType = 0
    /\ CurCmd = \h9E
    /\ InputPos = 3
    /\ byteIn = [val |-> \h5A, took |-> "data"]
    /\ State = LoadedState
    /\ Output = ClearedOutput

----------------------------------------------------------------------------
(* SpecRestore: the frontend restores the register file with SetState, and  *)
(* a savestate is saved or loaded with DoSavestate.  The date/time bytes of *)
(* the snapshots are arbitrary bytes around the edges of every field.       *)

RestoreYears == {\h00, \h9A}

RestoreMonths == {\h02, \h13, \hFF}

RestoreDays == {\h00, \h29, \h32}

RestoreWeekDays == {\h06, \hFF}

RestoreHours == {\h11, \h63, \hFF}

RestoreMinutes == {\h59, \hFF}

RestoreSeconds == {\h00, \h6A}

\* status register 1 of a snapshot: 12-hour and 24-hour mode
RestoreStatus == {\h00, \h02}

Snapshots ==
    {[LoadedState EXCEPT
         !.StatusReg1 = st,
         !.DateTime = [i \in 0..6 |-> <<y, mo, d, wd, h, mi, se>>[i + 1]]] :
     st \in RestoreStatus, y \in RestoreYears, mo \in RestoreMonths,
     d \in RestoreDays, wd \in RestoreWeekDays, h \in RestoreHours,
     mi \in RestoreMinutes, se \in RestoreSeconds}

\* a savestate taken between two sessions, with the snapshot as register file
SavestateOf(state) ==
    [IO |-> 0, Input |-> 0, InputBit |-> 0, InputPos |-> 0,
     Output |-> ClearedOutput, OutputBit |-> 0, OutputPos |-> 0, CurCmd |-> 0,
     State |-> state, TimerError |-> ScheduleTimer(TRUE, 0).err, ClockCount |-> 0]

SetStateStep == \E state \in Snapshots : SetStateCall(state)

DoSavestateStep ==
    \E state \in Snapshots, saving \in BOOLEAN : DoSavestate(SavestateOf(state), saving)

NextRestore == SetStateStep \/ DoSavestateStep

SpecRestore == InitNds /\ [][NextRestore]_vars

\* SpecSetState: the restores through SetState alone.
SpecSetState == InitNds /\ [][SetStateStep]_vars

----------------------------------------------------------------------------
(* Claims about restoring the register file, under SpecRestore.             *)

\* every date/time field of s is valid, the hour per the hour mode of s
FieldsValid(s) ==
    /\ ValidBcd(s.DateTime[0])
    /\ ValidBcd(s.DateTime[1])
    /\ Dec(s.DateTime[1]) >= 1 /\ Dec(s.DateTime[1]) <= 12
    /\ ValidBcd(s.DateTime[2])
    /\ Dec(s.DateTime[2]) >= 1
    /\ Dec(s.DateTime[2]) <= CalendarDays(Dec(s.DateTime[1]), Dec(s.DateTime[0]))
    /\ s.DateTime[3] \in 0..6
    /\ s.DateTime[4] < \h80
    /\ ValidBcd(HourOf(s))
    /\ Dec(HourOf(s)) <= (IF Is24h(s) THEN 23 ELSE 11)
    /\ Is24h(s) => (PmOf(s) <=> Dec(HourOf(s)) >= 12)
    /\ ValidBcd(s.DateTime[5]) /\ Dec(s.DateTime[5]) <= 59
    /\ ValidBcd(s.DateTime[6]) /\ Dec(s.DateTime[6]) <= 59

\* the bytes of s are the ones the write path stores when they are written in
\* the order year .. second
WritePathKeeps(s) ==
    /\ WriteDateTime(s, 1, s.DateTime[0]) = s
    /\ WriteDateTime(s, 2, s.DateTime[1]) = s
    /\ WriteDateTime(s, 3, s.DateTime[2]) = s
    /\ WriteDateTime(s, 4, s.DateTime[3]) = s
    /\ WriteDateTime(s, 5, s.DateTime[4]) = s
    /\ WriteDateTime(s, 6, s.DateTime[5]) = s
    /\ WriteDateTime(s, 7, s.DateTime[6]) = s

\* C15 as stated: after the register file is restored from a snapshot with
\* arbitrary date/time bytes, through SetState or through a savestate load,
\* every date/time field is valid - year, month, day within the month's
\* length, day-of-week, hour per the restored hour mode, minute, second - and
\* is what the write-path validation produces.
C15_RestoredFieldsValid == FieldsValid(State) /\ WritePathKeeps(State)

\* a savestate whose date/time bytes are 0x9A 0xFF 0x32 0xFF 0xFF 0xFF 0x6A
\* was loaded and the register file holds these bytes
C15_FailingState ==
    /\ State.DateTime[0] = \h9A
    /\ State.DateTime[1] = \hFF
    /\ State.DateTime[2] = \h32
    /\ State.DateTime[3] = \hFF
    /\ State.DateTime[4] = \hFF
    /\ State.DateTime[5] = \hFF
    /\ State.DateTime[6] = \h6A

\* The same property for the restores through SetState alone.
C15_SetStateValidates == FieldsValid(State) /\ WritePathKeeps(State)

----------------------------------------------------------------------------
(* SpecMinuteCount: the second before a minute ends; the scheduler runs      *)
(* ClockTimer and the host runs sessions of the status register 1 write,    *)
(* of the minute-counter write of the extended set and of the date/time     *)
(* write, on both console types.                                            *)

MinuteCmds == {\h06, \h0E, \h26}

MinuteData ==
    [x \in {<<\h06, 1>>, <<\h0E, 1>>, <<\h0E, 2>>, <<\h0E, 3>>, <<\h26, 1>>} |->
        IF x = <<\h06, 1>> THEN {\h01, \h02}
        ELSE IF x = <<\h26, 1>> THEN {\h05}
        ELSE {\hFF}]

MinuteWrite ==
    \E val \in WriteVals :
        /\ (BitAnd(val, \h0004) = 0 /\ BitAnd(IO, \h0004) # 0) => InputBit = 0
        /\ Write(val, FALSE, MinuteCmds, MinuteData)

InitMinuteCount ==
    \E console \in {0, 1} :
        InitWith(StateAt(FALSE, <<\h24, \h02, \h29, 4, \h51, \h37, \h59>>), console)

NextMinuteCount ==
    \/ MinuteWrite
    \/ ClockTimerStep
    \/ IdleTicksStep

SpecMinuteCount == InitMinuteCount /\ [][NextMinuteCount]_vars

----------------------------------------------------------------------------
(* Claims about the minute counter, under SpecMinuteCount.                  *)

C16_Step ==
    State'.MinuteCount # State.MinuteCount
    => /\ SecondTick
       /\ SecondWraps
       /\ State'.MinuteCount = State.MinuteCount + 1

\* C16 as stated: the minute counter changes only by +1 on a second tick that
\* carries into the minute; no command or data byte of the serial interface
\* changes it - not a write to the minute-counter group of the extended set,
\* not a date/time write, not a status register 1 write with the reset bit.
C16_MinuteCounterReadOnly == [][C16_Step]_vars

\* the minute counter was 1 after the tick that ended the minute, and the
\* status register 1 write of 0x01 has left it 0
C16_FailingState ==
    /\ seconds = 1
    /\ CurCmd = \h06
    /\ InputPos = 2
    /\ byteIn = [val |-> \h01, took |-> "data"]
    /\ State.DateTime[6] = \h00
    /\ State.MinuteCount = 0

----------------------------------------------------------------------------
(* Claims about the bits of status register 1, under SpecStatus1.           *)

C18_Step ==
    DataByteStep(\h06, 1) =>
        /\ State'.StatusReg1 \div 16 = State.StatusReg1 \div 16
        /\ (State'.StatusReg1 \div 2) % 8 = (byteIn'.val \div 2) % 8
        /\ State'.StatusReg1 % 2 = 0

\* C18 as stated: a data byte written to status register 1 never changes bits
\* 4..7 of the register, with the reset bit set or clear: after the write
\* bits 4..7 are what they were before it, bits 1..3 are bits 1..3 of the
\* byte, and bit 0 is 0.
C18_PowerOnNibbleKept == [][C18_Step]_vars

\* the byte 0x01 was written to status register 1 and the register holds
\* 0x00; before the write it held 0x80 (12-hour mode) or 0x02 (24-hour mode)
C18_FailingState ==
    /\ CurCmd = \h06
    /\ InputPos = 2
    /\ byteIn = [val |-> \h01, took |-> "data"]
    /\ State.StatusReg1 = \h00
    /\ State.DateTime[4] = \h00

----------------------------------------------------------------------------
(* SpecAlarmDate: sessions that write the first byte of the first alarm     *)
(* date (command 0x1E) and sessions of the read-direction commands of the   *)
(* two alarm dates (0x9E, 0xDE), whose first byte the host shifts out.      *)

AlarmDateCmds == {\h1E, \h9E, \hDE}

AlarmDateData == [x \in {<<\h1E, 1>>} |-> {\h5A, \hA5}]

\* the host ends a session between two bytes, and shifts bits out only after
\* a read command
AlarmDateWrite ==
    \E val \in StatusVals :
        /\ (BitAnd(val, \h0004) = 0 /\ BitAnd(IO, \h0004) # 0) => InputBit = 0
        /\ (BitAnd(val, \h0014) = \h0004 /\ BitAnd(IO, \h0004) # 0)
              => (InputPos = 1 /\ InputBit = 0 /\ BitAnd(CurCmd, \h80) # 0)
        /\ (BitAnd(val, \h0014) = \h0014 /\ BitAnd(IO, \h0004) # 0)
              => readShifts = 0
        /\ readShifts < MaxStatusShifts \/ BitAnd(val, \h0014) # \h0004
              \/ BitAnd(IO, \h0004) = 0
        /\ Write(val, FALSE, AlarmDateCmds, AlarmDateData)

NextAlarmDate == AlarmDateWrite

SpecAlarmDate == Init /\ [][NextAlarmDate]_vars

----------------------------------------------------------------------------
(* Claims about the alarm-date registers, under SpecAlarmDate.              *)

\* the register file with the two alarm dates erased
NoAlarmDates(s) == [s EXCEPT !.AlarmDate1 = Zero3, !.AlarmDate2 = Zero3]

\* a read-direction shift of a session of one of the alarm-date read commands
AlarmDateReadShift ==
    /\ readShifts' = readShifts + 1
    /\ CurCmd \in {\h9E, \hDE}
    /\ InputPos = 1

C17_Step ==
    /\ (CommandByteStep /\ ConsoleType = 1 /\ CurCmd' \in {\h9E, \hDE})
       => Output' = ByteIn(NoAlarmDates(State), Output, CurCmd, InputPos,
                           byteIn'.val, ConsoleType).out
    /\ (AlarmDateReadShift /\ ConsoleType = 1 /\ readShifts < 8)
       => Read' % 2 = 0

\* C17 as stated: with the console-variant flag on, a read-direction command
\* addressed to an alarm-date group (0x9E, 0xDE) leaves the output buffer as
\* it would be with nothing stored in the alarm-date registers, and the bits
\* shifted out after it are the zero bits of the cleared buffer whatever was
\* written to the registers.
C17_AlarmDateWriteOnly == [][C17_Step]_vars

\* 0x5A was written to the first alarm date, the command 0x9E was sent, and
\* the second bit the host shifted out is bit 1 of 0x5A
C17_FailingState ==
    /\ ConsoleType = 1
    /\ CurCmd = \h9E
    /\ State.AlarmDate1[0] = \h5A
    /\ Output[0] = \h5A
    /\ readShifts = 2
    /\ Read % 2 = 1

----------------------------------------------------------------------------
(* Claims about the direction of a session, under SpecStatusRead.           *)

C19_Step ==
    (byteIn'.took = "data" /\ InputPos' = InputPos + 1 /\ Bit(CurCmd, 7) = 1)
    => State' = State

\* C19 as stated: in a session whose normalized command byte has bit 7 set
\* (read direction), every byte shifted in after the command byte leaves the
\* whole register file unchanged.
C19_ReadSessionWritesNothing == [][C19_Step]_vars

\* after the read command 0x86 the data byte 0x02 was shifted in and status
\* register 1 holds it: the hour mode is the 24-hour mode
C19_FailingState ==
    /\ CurCmd = \h86
    /\ InputPos = 2
    /\ byteIn = [val |-> \h02, took |-> "data"]
    /\ State.StatusReg1 = \h02

----------------------------------------------------------------------------
(* SpecReadTick: sessions of the date/time read command 0xA6 whose bytes    *)
(* the host shifts out, from the last second of a year in both hour modes,  *)
(* while the scheduler runs ClockTimer between any two writes of the        *)
(* control register.                                                        *)

ReadTickCmds == {\hA6}

ReadTickData == [x \in {} |-> {}]

\* the last second of the year 99, a Saturday
ReadTickStart(mode24) ==
    StateAt(mode24, <<\h99, \h12, \h31, 6, IF mode24 THEN \h63 ELSE \h51, \h59, \h59>>)

\* the host ends a session between two bytes, and shifts bits out only after
\* the read command
ReadTickWrite ==
    \E val \in StatusVals :
        /\ (BitAnd(val, \h0004) = 0 /\ BitAnd(IO, \h0004) # 0) => InputBit = 0
        /\ (BitAnd(val, \h0014) = \h0004 /\ BitAnd(IO, \h0004) # 0)
              => (InputPos = 1 /\ InputBit = 0)
        /\ (BitAnd(val, \h0014) = \h0014 /\ BitAnd(IO, \h0004) # 0)
              => readShifts = 0
        /\ Write(val, FALSE, ReadTickCmds, ReadTickData)

InitReadTick == \E mode24 \in BOOLEAN : InitWith(ReadTickStart(mode24), 0)

NextReadTick ==
    \/ ReadTickWrite
    \/ ClockTimerStep
    \/ IdleTicksStep

SpecReadTick == InitReadTick /\ [][NextReadTick]_vars

----------------------------------------------------------------------------
(* Claims about a read session and the clock, under SpecReadTick.           *)

\* the register file k seconds after s
RECURSIVE SecondsLater(_, _)
SecondsLater(s, k) == IF k = 0 THEN s ELSE SecondsLater(CountSecond(s), k - 1)

\* the first seven bytes of the output buffer are the date/time register of s
HoldsInstant(out, s) == \A i \in 0..6 : out[i] = s.DateTime[i]

\* a step of ClockTimer callbacks
TickStep == ClockCount' # ClockCount

\* a session of the date/time read command is open
ReadSession == BitAnd(IO, \h0004) # 0 /\ InputPos = 1 /\ CurCmd = \hA6

C20_Step ==
    /\ TickStep => /\ Output' = Output
                   /\ OutputPos' = OutputPos
                   /\ OutputBit' = OutputBit
                   /\ Read' = Read
    /\ (CommandByteStep /\ CurCmd' = \hA6) => HoldsInstant(Output', State)
    /\ (ReadSession /\ readShifts' = readShifts + 1 /\ readShifts < 56)
       => Read' % 2 = Bit(Output[readShifts \div 8], readShifts % 8)

C20_OneInstant ==
    ReadSession =>
        \E k \in 0..seconds :
            HoldsInstant(Output, SecondsLater(ReadTickStart(Is24h(State)), k))

\* C20: a clock tick delivered between two control-register writes of a read
\* session changes neither the output buffer nor the position in it nor the
\* data bit; the buffer holds the register values as of the decode of the
\* command byte, and the bits shifted out are its bits: the 7 bytes of a
\* date/time read are the bytes of one single calendar instant even when a
\* second and its carries elapse during the transfer.
C20_TickDoesNotChangeRead == []C20_OneInstant /\ [][C20_Step]_vars

\* the command was decoded in the last second of the year 99, the second
\* elapsed while the session was open, and all 56 bits have been shifted out
\* of a buffer that still holds 99-12-31 23:59:59 while the register holds
\* 00-01-01 00:00:00
C20_Witness ==
    /\ ReadSession
    /\ readShifts = 56
    /\ seconds = 1
    /\ HoldsInstant(Output, ReadTickStart(TRUE))
    /\ State.DateTime[0] = \h00
    /\ State.DateTime[6] = \h00
    /\ Read % 2 = Bit(\h59, 7)

====
